---- MODULE Spec2Model ----
(***************************************************************************)
(* dpt: layered settings resolution (src/src/dpt/schema.py) and the        *)
(* command-line pipeline (src/src/dpt/__main__.py).                        *)
(*                                                                         *)
(* Plain data: a Python value is a record [kind, s, m]:                    *)
(*   kind = "null"  None                                                   *)
(*   kind = "str"   a string, s = its text as a sequence of atoms; the     *)
(*                  atom ":" is the colon character, <<>> is ""            *)
(*   kind = "seq"   a list (s names its content; lists are never merged)   *)
(*   kind = "map"   a dict, m = function from key to value                 *)
(* A tree (a dict at top level, **kwargs) is a function from keys to       *)
(* values.                                                                 *)
(***************************************************************************)
EXTENDS Naturals, Sequences, FiniteSets, TLC

VARIABLES
  pc,               \* position in cli / main / from_file / __init__
  argv,             \* sys.argv
  environ,          \* os.environ: name -> text (field names case-folded)
  config_file,      \* main's config_file argument
  kw,               \* main's **kw (call-time keyword tree)
  config_path,      \* from_file: the path in effect, or None
  file,             \* the file found at config_path when __init__ opens it
  init_kw,          \* __init__: tree parsed from the config file
  values,           \* __init__: merged tree handed to pydantic validation
  result,           \* outcome of construction: entity, errors or exception
  stdout,           \* what the process printed
  exit_status,      \* process exit status ("running" until it ends)
  mapping,          \* deep_update: base tree
  updating_mapping, \* deep_update: override tree
  updated_mapping,  \* deep_update: result
  tcls,             \* Target construction: the class (Dev or Prod)
  ttree             \* Target construction: tree given to the constructor

vars == <<pc, argv, environ, config_file, kw, config_path, file, init_kw,
          values, result, stdout, exit_status, mapping, updating_mapping,
          updated_mapping, tcls, ttree>>

----------------------------------------------------------------------------
(* Plain data values *)

None == [kind |-> "null", s |-> <<>>, m |-> <<>>]
Str(x) == [kind |-> "str", s |-> x, m |-> <<>>]
List(x) == [kind |-> "seq", s |-> x, m |-> <<>>]
Map(f) == [kind |-> "map", s |-> <<>>, m |-> f]
EmptyTree == <<>>

IsMap(v) == v.kind = "map"
IsStr(v) == v.kind = "str"
IsNone(v) == v.kind = "null"

\* Python truthiness: None, "", [] and {} are falsy.
Truthy(v) ==
  CASE v.kind = "null" -> FALSE
    [] v.kind = "str" -> v.s # <<>>
    [] v.kind = "seq" -> v.s # <<>>
    [] v.kind = "map" -> DOMAIN v.m # {}

\* dict.get(key): None when the key is missing.
Get(d, k) == IF k \in DOMAIN d THEN d[k] ELSE None

\* All partial functions from keys to vals (dicts over the keys).
PartialMaps(keys, vals) ==
  UNION {[ks -> vals] : ks \in SUBSET keys}

----------------------------------------------------------------------------
(* pydantic.utils.deep_update as called at schema.py:102-105 *)

\* A faulty merge: the override's value always replaces the base's whole.
ShallowUpdate(base, over) ==
  [k \in DOMAIN base \cup DOMAIN over |->
     IF k \in DOMAIN over THEN over[k] ELSE base[k]]

RECURSIVE deep_update(_, _)
deep_update(base, over) ==
  [k \in DOMAIN base \cup DOMAIN over |->
     IF k \in DOMAIN over
       THEN IF k \in DOMAIN base /\ IsMap(base[k]) /\ IsMap(over[k])
              THEN Map(deep_update(base[k].m, over[k].m))
              ELSE over[k]
       ELSE base[k]]

----------------------------------------------------------------------------
(* Schema: the settings classes of schema.py *)

\* Field names in declaration order (validation order).
TargetFields ==
  <<"repository", "tag", "image", "env", "args", "reqs", "poetry_extras">>
DevFields == TargetFields \o <<"poetry_version">>
ProdFields == TargetFields \o <<"entrypoint_script", "cmd">>
DockerfileFields ==
  <<"package", "readme_ext", "scripts_path", "args", "dev", "prod",
    "request", "spacing">>

Fields(cls) ==
  CASE cls = "Dev" -> DevFields
    [] cls = "Prod" -> ProdFields
    [] cls = "Dockerfile" -> DockerfileFields

Range(q) == {q[i] : i \in DOMAIN q}
FieldSet(cls) == Range(Fields(cls))

\* Fields whose type is a dict, a list or a model: their environment text is
\* JSON-decoded; the text of the others is taken as the string itself.
ComplexFields ==
  {"env", "args", "reqs", "poetry_extras", "dev", "prod", "spacing"}

FallbackImage == <<"python", ":", "3.9-alpine">>
PoetryVersion == <<"1.1.4">>
DefaultRequest == <<"/usr/bin/curl -L -o">>
DefaultScriptsPath == <<"/usr/local/sbin">>
ReadmeRST == <<".rst">>
SpacingDefaults ==
  [f \in {"n", "nn", "header", "z", "t", "footer"} |-> Str(<<f>>)]

\* Faulty defaults: dev and prod given a default (an empty mapping).
DefaultsWithTargets(cls) ==
  CASE cls = "Dev" ->
         [f \in Range(TargetFields) |-> None]
           @@ ("poetry_version" :> Str(PoetryVersion))
    [] cls = "Prod" ->
         [f \in Range(ProdFields) |-> None]
    [] cls = "Dockerfile" ->
         [readme_ext |-> Str(ReadmeRST),
          scripts_path |-> Str(DefaultScriptsPath),
          args |-> None,
          dev |-> Map(EmptyTree),
          prod |-> Map(EmptyTree),
          request |-> Str(DefaultRequest),
          spacing |-> Map(SpacingDefaults)]

\* Class defaults; a field outside the domain is required (Field(...)).
Defaults(cls) ==
  CASE cls = "Dev" ->
         [f \in Range(TargetFields) |-> None]
           @@ ("poetry_version" :> Str(PoetryVersion))
    [] cls = "Prod" ->
         [f \in Range(ProdFields) |-> None]
    [] cls = "Dockerfile" ->
         [readme_ext |-> Str(ReadmeRST),
          scripts_path |-> Str(DefaultScriptsPath),
          args |-> None,
          request |-> Str(DefaultRequest),
          spacing |-> Map(SpacingDefaults)]

Required(cls) == FieldSet(cls) \ DOMAIN Defaults(cls)

----------------------------------------------------------------------------
(* Environment layer: _build_values (schema.py:104) *)

\* json.loads on an environment text: the documents the model's environment
\* texts denote; any other text is not JSON.
JsonDocs ==
  (<<"{\"tag\": \"3.9\"}">> :> Map("tag" :> Str(<<"3.9">>)))
  @@ (<<"{\"image\": \"node:3.9\"}">> :>
        Map("image" :> Str(<<"node", ":", "3.9">>)))
  @@ (<<"{\"A\": \"1\"}">> :> Map("A" :> Str(<<"1">>)))
  @@ (<<"{}">> :> Map(EmptyTree))
  @@ (<<"\"text\"">> :> Str(<<"text">>))
  @@ (<<"null">> :> None)

IsJson(text) == text \in DOMAIN JsonDocs
json_loads(text) == JsonDocs[text]

\* The fields of cls that the environment names.
EnvNamed(cls, env) == FieldSet(cls) \cap DOMAIN env

\* SettingsError: a complex field's text does not decode.
EnvFails(cls, env) ==
  \E f \in EnvNamed(cls, env) : f \in ComplexFields /\ ~IsJson(env[f])

EnvTree(cls, env) ==
  [f \in EnvNamed(cls, env) |->
     IF f \in ComplexFields THEN json_loads(env[f]) ELSE Str(env[f])]

\* A faulty precedence: the environment overrides the keywords.
EnvOverKeywords(cls, init_kwargs, env) ==
  deep_update(init_kwargs, EnvTree(cls, env))

build_values(cls, init_kwargs, env) ==
  deep_update(EnvTree(cls, env), init_kwargs)

----------------------------------------------------------------------------
(* Field validation: pydantic's validate_model over the classes of         *)
(* schema.py.  BaseSettings sets validate_all (defaults are validated too) *)
(* and forbids extra keys.  An outcome is                                  *)
(*   [raised, errors, entity]: raised = "none" and the entity, or          *)
(*   raised = "ValidationError" and errors (a set of <<loc, type>>), or    *)
(*   another exception's name.                                             *)
(***************************************************************************)

Ok(entity) == [raised |-> "none", errors |-> {}, entity |-> entity]
Raise(exc) == [raised |-> exc, errors |-> {}, entity |-> EmptyTree]
Invalid(errors) ==
  [raised |-> "ValidationError", errors |-> errors, entity |-> EmptyTree]

\* str.split(":")
RECURSIVE Split(_)
Split(text) ==
  IF \A i \in DOMAIN text : text[i] # ":"
    THEN <<text>>
    ELSE LET i == CHOOSE j \in DOMAIN text :
                    text[j] = ":" /\ \A h \in 1..(j - 1) : text[h] # ":"
         IN <<SubSeq(text, 1, i - 1)>> \o Split(SubSeq(text, i + 1, Len(text)))

\* Type checks of one supplied value; the error type, or "" when it passes.
StrDictOk(v, none_values) ==
  IsMap(v) /\ \A k \in DOMAIN v.m :
                  IsStr(v.m[k]) \/ (none_values /\ IsNone(v.m[k]))

TypeError(cls, f, v) ==
  CASE f \in {"repository", "tag", "image", "entrypoint_script", "cmd"} ->
         IF IsNone(v) \/ IsStr(v) THEN "" ELSE "type_error.str"
    [] f \in {"package", "request", "poetry_version", "scripts_path"} ->
         IF IsNone(v) THEN "type_error.none.not_allowed"
         ELSE IF IsStr(v) THEN "" ELSE "type_error.str"
    [] f = "readme_ext" ->
         IF IsNone(v) THEN "type_error.none.not_allowed"
         ELSE IF v = Str(ReadmeRST) THEN "" ELSE "type_error.enum"
    [] f = "env" ->
         IF IsNone(v) \/ StrDictOk(v, FALSE) THEN "" ELSE "type_error.dict"
    [] f = "args" ->
         IF IsNone(v) \/ StrDictOk(v, TRUE) THEN "" ELSE "type_error.dict"
    [] f \in {"reqs", "poetry_extras"} ->
         IF IsNone(v) \/ v.kind = "seq" THEN "" ELSE "type_error.list"
    [] f \in {"dev", "prod", "spacing"} ->
         IF IsNone(v) THEN "type_error.none.not_allowed"
         ELSE IF IsMap(v) THEN "" ELSE "type_error.dict"

\* A faulty validator: the fallback image is returned whenever image is not
\* given, whatever repository and tag are.
AlwaysFallback(v, vals) ==
  IF ~Truthy(v)
    THEN [raised |-> "none", image |-> Str(FallbackImage), vals |-> vals]
    ELSE LET parts == Split(v.s)
         IN IF Len(parts) # 2
              THEN [raised |-> "ValueError", image |-> v, vals |-> vals]
              ELSE [raised |-> "none", image |-> v,
                    vals |-> ("repository" :> Str(parts[1]))
                               @@ ("tag" :> Str(parts[2])) @@ vals]

\* A faulty validator: the parts of image overwrite repository and tag
\* without comparing them.
NoCompare(v, vals) ==
  LET repository == Get(vals, "repository")
      tag == Get(vals, "tag")
  IN
  IF ~Truthy(v) /\ Truthy(repository) /\ Truthy(tag)
    THEN [raised |-> "none", image |-> Str(repository.s \o <<":">> \o tag.s),
          vals |-> vals]
  ELSE IF ~Truthy(v) /\ ~(Truthy(repository) \/ Truthy(tag))
    THEN [raised |-> "none", image |-> Str(FallbackImage), vals |-> vals]
  ELSE IF IsNone(v)
    THEN [raised |-> "AttributeError", image |-> v, vals |-> vals]
  ELSE LET parts == Split(v.s)
       IN IF Len(parts) # 2
            THEN [raised |-> "ValueError", image |-> v, vals |-> vals]
            ELSE [raised |-> "none", image |-> v,
                  vals |-> ("repository" :> Str(parts[1]))
                             @@ ("tag" :> Str(parts[2])) @@ vals]

\* Target.consistent_image(cls, v, values): the image returned, the values
\* dict as the validator leaves it, and the exception it raises if any.
consistent_image(v, vals) ==
  LET repository == Get(vals, "repository")
      tag == Get(vals, "tag")
  IN
  IF ~Truthy(v) /\ Truthy(repository) /\ Truthy(tag)
    THEN [raised |-> "none", image |-> Str(repository.s \o <<":">> \o tag.s),
          vals |-> vals]
  ELSE IF ~Truthy(v) /\ ~(Truthy(repository) \/ Truthy(tag))
    THEN [raised |-> "none", image |-> Str(FallbackImage), vals |-> vals]
  ELSE IF IsNone(v)
    \* v.split on None
    THEN [raised |-> "AttributeError", image |-> v, vals |-> vals]
  ELSE
    LET parts == Split(v.s)
    IN
    IF Len(parts) # 2
      \* img_repo, img_tag = ... does not unpack
      THEN [raised |-> "ValueError", image |-> v, vals |-> vals]
    ELSE
      LET img_repo == Str(parts[1])
          img_tag == Str(parts[2])
          vals1 == IF Truthy(repository)
                     THEN vals
                     ELSE ("repository" :> img_repo) @@ vals
          vals2 == IF Truthy(tag) THEN vals1 ELSE ("tag" :> img_tag) @@ vals1
      IN
      IF Truthy(repository) /\ repository # img_repo
        THEN [raised |-> "AssertionError", image |-> v, vals |-> vals]
      ELSE IF Truthy(tag) /\ tag # img_tag
        THEN [raised |-> "AssertionError", image |-> v, vals |-> vals1]
      ELSE [raised |-> "none", image |-> v, vals |-> vals2]

\* validate_model over a Target class (Dev or Prod): repository and tag
\* first, then image with its validator reading the values validated so
\* far, then the remaining fields.
TargetValidate(cls, vals) ==
  LET rt == {"repository", "tag"}
      rtErr == {f \in rt : TypeError(cls, f, Get(vals, f)) # ""}
      vals0 == [f \in rt \ rtErr |-> Get(vals, f)]
      img == Get(vals, "image")
      imgTE == TypeError(cls, "image", img)
      ci == consistent_image(img, vals0)
      rest == FieldSet(cls) \ (rt \cup {"image"})
      restVal(f) == IF f \in DOMAIN vals THEN vals[f] ELSE Defaults(cls)[f]
      errors ==
        {<<(<<f>>), TypeError(cls, f, Get(vals, f))>> : f \in rtErr}
        \cup (IF imgTE # "" THEN {<<(<<"image">>), imgTE>>}
              ELSE IF ci.raised # "none"
                THEN {<<(<<"image">>), ci.raised>>}
                ELSE {})
        \cup {<<(<<f>>), TypeError(cls, f, restVal(f))>> :
                f \in {g \in rest : TypeError(cls, g, restVal(g)) # ""}}
        \cup {<<(<<k>>), "value_error.extra">> :
                k \in DOMAIN vals \ FieldSet(cls)}
      entity ==
        [f \in FieldSet(cls) |->
           IF f \in rt THEN Get(ci.vals, f)
           ELSE IF f = "image" THEN ci.image
           ELSE restVal(f)]
  IN
  IF imgTE = "" /\ ci.raised = "AttributeError"
    THEN Raise("AttributeError")
  ELSE IF errors # {} THEN Invalid(errors)
  ELSE Ok(entity)

\* BaseSettings.__init__ of a Target (no config path): the constructor's
\* tree merged over the environment variables naming the class's fields.
TargetInit(cls, tree, env) ==
  IF EnvFails(cls, env)
    THEN Raise("SettingsError")
    ELSE TargetValidate(cls,
           deep_update(EmptyTree, build_values(cls, tree, env)))

TargetClass(f) == IF f = "dev" THEN "Dev" ELSE "Prod"

\* validate_model over Dockerfile: every field is validated and the errors
\* collected; dev and prod are built by their own constructors, whose
\* validation errors are nested under the field and whose other exceptions
\* escape.
DockerfileValidate(vals, env) ==
  LET cls == "Dockerfile"
      nested == {"dev", "prod"}
      fieldVal(f) == IF f \in DOMAIN vals THEN vals[f] ELSE Defaults(cls)[f]
      missing == Required(cls) \ DOMAIN vals
      built == {f \in nested \ missing :
                  TypeError(cls, f, fieldVal(f)) = ""}
      sub(f) == TargetInit(TargetClass(f), fieldVal(f).m, env)
      errors ==
        {<<(<<f>>), "value_error.missing">> : f \in missing}
        \cup {<<(<<f>>), TypeError(cls, f, fieldVal(f))>> :
                f \in {g \in (FieldSet(cls) \ missing) \ built :
                         TypeError(cls, g, fieldVal(g)) # ""}}
        \cup UNION {{<<(<<f>>) \o e[1], e[2]>> : e \in sub(f).errors} :
                      f \in {g \in built : sub(g).raised = "ValidationError"}}
        \cup {<<(<<f>>), "value_error.settings">> :
                f \in {g \in built : sub(g).raised = "SettingsError"}}
        \cup {<<(<<k>>), "value_error.extra">> :
                k \in DOMAIN vals \ FieldSet(cls)}
      entity ==
        [f \in FieldSet(cls) |->
           IF f \in nested THEN Map(sub(f).entity)
           ELSE IF f = "spacing"
             THEN Map(deep_update(SpacingDefaults, fieldVal(f).m))
           ELSE fieldVal(f)]
  IN
  IF \E f \in built : sub(f).raised = "AttributeError"
    THEN Raise("AttributeError")
  ELSE IF errors # {} THEN Invalid(errors)
  ELSE Ok(entity)

----------------------------------------------------------------------------
(* Bounds and input domains *)

\* Nesting depth of the trees given to deep_update (Dockerfile -> Target ->
\* env/args is three levels).
MaxDepth == 3
\* Longest image text, in atoms.
MaxImgLen == 3

Idle == "idle"
NoOutcome == Raise("none")
NoFile == [readable |-> FALSE, wellformed |-> FALSE, doc |-> None]

\* Leaves of a merged tree: a scalar and a sequence.
Leaves == {Str(<<"x">>), List(<<"y">>)}

\* Trees of depth at most d: key "a" holds a leaf or a nested tree, key "b"
\* a leaf; either may be missing.
RECURSIVE TreesOfDepth(_)
TreesOfDepth(d) ==
  LET va == Leaves \cup (IF d > 1
                           THEN {Map(t) : t \in TreesOfDepth(d - 1)}
                           ELSE {})
  IN {ta @@ tb : ta \in PartialMaps({"a"}, va),
                 tb \in PartialMaps({"b"}, Leaves)}

MergeTrees == TreesOfDepth(MaxDepth)

\* Texts over the atoms of an image reference, up to n atoms.
RECURSIVE TextsUpTo(_)
TextsUpTo(n) ==
  IF n = 0 THEN {<<>>}
  ELSE LET shorter == TextsUpTo(n - 1)
       IN shorter \cup {Append(t, c) : t \in shorter,
                                        c \in {"python", ":", "3.9"}}

\* Trees given to a Target constructor.
TargetTrees ==
  {r @@ t @@ i @@ c :
     r \in PartialMaps({"repository"},
                       {None, Str(<<>>), Str(<<"python">>), Str(<<"node">>)}),
     t \in PartialMaps({"tag"}, {Str(<<>>), Str(<<"3.9">>)}),
     i \in PartialMaps({"image"},
                       {None} \cup {Str(x) : x \in TextsUpTo(MaxImgLen)}),
     c \in PartialMaps({"cmd"}, {Str(<<"run">>)})}

\* Environments seen by a Target constructor.
TargetEnvirons ==
  {t @@ i : t \in PartialMaps({"tag"}, {<<"3.9">>}),
            i \in PartialMaps({"image"}, {<<"node", ":", "3.9">>})}

----------------------------------------------------------------------------
(* Specification of the merge alone: deep_update on arbitrary trees *)

InitMerge ==
  /\ pc = "merge"
  /\ mapping \in MergeTrees
  /\ updating_mapping \in MergeTrees
  /\ updated_mapping = EmptyTree
  /\ argv = <<>> /\ environ = EmptyTree /\ config_file = None
  /\ kw = EmptyTree /\ config_path = None /\ file = NoFile
  /\ init_kw = None /\ values = EmptyTree /\ result = NoOutcome
  /\ stdout = <<>> /\ exit_status = "running"
  /\ tcls = Idle /\ ttree = EmptyTree

Merge ==
  /\ pc = "merge"
  /\ updated_mapping' = deep_update(mapping, updating_mapping)
  /\ pc' = "merged"
  /\ UNCHANGED <<argv, environ, config_file, kw, config_path, file, init_kw,
                 values, result, stdout, exit_status, mapping,
                 updating_mapping, tcls, ttree>>

NextMerge == Merge
SpecMerge == InitMerge /\ [][NextMerge]_vars

----------------------------------------------------------------------------
(* Specification of one Target construction: a Dev or a Prod from a tree *)

InitTarget ==
  /\ pc = "target"
  /\ tcls \in {"Dev", "Prod"}
  /\ ttree \in TargetTrees
  /\ environ \in TargetEnvirons
  /\ values = EmptyTree /\ result = NoOutcome
  /\ argv = <<>> /\ config_file = None
  /\ kw = EmptyTree /\ config_path = None /\ file = NoFile
  /\ init_kw = None
  /\ stdout = <<>> /\ exit_status = "running"
  /\ mapping = EmptyTree /\ updating_mapping = EmptyTree
  /\ updated_mapping = EmptyTree

ConstructTarget ==
  /\ pc = "target"
  /\ values' = IF EnvFails(tcls, environ)
                 THEN EmptyTree
                 ELSE deep_update(EmptyTree,
                                  build_values(tcls, ttree, environ))
  /\ result' = TargetInit(tcls, ttree, environ)
  /\ pc' = "target_done"
  /\ UNCHANGED <<argv, environ, config_file, kw, config_path, file, init_kw,
                 stdout, exit_status, mapping, updating_mapping,
                 updated_mapping, tcls, ttree>>

NextTarget == ConstructTarget
SpecTarget == InitTarget /\ [][NextTarget]_vars

----------------------------------------------------------------------------
(* The command-line pipeline: cli -> main -> from_file -> __init__ ->      *)
(* render and print (Spec)                                                 *)

\* Paths: a stem and an extension.
CfgJson == <<"cfg", ".json">>
CfgTxt == <<"cfg", ".txt">>
EnvYml == <<"env", ".yml">>
Suffix(path) == path[Len(path)]

\* The parser table of __init__.
Parsers == {".json", ".toml", ".yml", ".yaml"}

\* dev and prod subtrees a config file may hold.
DevChoices ==
  {Map(EmptyTree),
   Map("image" :> Str(<<"python", ":", "3.9">>)),
   Map("repository" :> Str(<<"python">>)),
   Map(("repository" :> Str(<<"python">>)) @@ ("tag" :> Str(<<"3.8">>))),
   Map(("repository" :> Str(<<"node">>))
         @@ ("image" :> Str(<<"python", ":", "3.9">>))),
   Str(<<"python">>)}
ProdChoices ==
  {Map(EmptyTree), Map("image" :> Str(<<"python", ":", "3.9">>))}

FileTrees ==
  {p @@ r @@ d @@ q :
     p \in PartialMaps({"package"}, {Str(<<"demo">>)}),
     r \in PartialMaps({"request"}, {Str(<<"wget">>)}),
     d \in PartialMaps({"dev"}, DevChoices),
     q \in PartialMaps({"prod"}, ProdChoices)}

\* What open() and the parser may find at a path: an unreadable file, a
\* malformed document, a document that is not a mapping, or a tree.
Files ==
  {NoFile,
   [readable |-> TRUE, wellformed |-> FALSE, doc |-> None],
   [readable |-> TRUE, wellformed |-> TRUE, doc |-> None],
   [readable |-> TRUE, wellformed |-> TRUE, doc |-> List(<<"item">>)]}
  \cup {[readable |-> TRUE, wellformed |-> TRUE, doc |-> Map(t)] :
          t \in FileTrees}

Environs ==
  {c @@ p @@ r @@ t @@ d @@ q :
     c \in PartialMaps({"DPT_CFG_FILE"}, {EnvYml}),
     p \in PartialMaps({"package"}, {<<"envpkg">>}),
     r \in PartialMaps({"request"}, {<<"envreq">>}),
     t \in PartialMaps({"tag"}, {<<"3.9">>}),
     d \in PartialMaps({"dev"}, {<<"{\"tag\": \"3.9\"}">>, <<"{}">>}),
     q \in PartialMaps({"prod"}, {<<"{}">>, <<"{oops">>})}

KwTrees == PartialMaps({"request"}, {Str(<<"kwreq">>)})

\* One positional argument at most, possibly the empty string.
Argvs ==
  {<<(<<"dpt">>)>>} \cup {<<(<<"dpt">>), a>> : a \in {<<>>, CfgJson, CfgTxt}}

Init ==
  /\ pc \in {"cli", "main"}
  /\ environ \in Environs
  /\ IF pc = "cli"
       THEN argv \in Argvs /\ config_file = None /\ kw = EmptyTree
       ELSE /\ argv = <<>>
            /\ config_file \in {None, Str(<<>>), Str(CfgJson), Str(CfgTxt)}
            /\ kw \in KwTrees
  /\ config_path = None /\ file = NoFile
  /\ init_kw = None /\ values = EmptyTree /\ result = NoOutcome
  /\ stdout = <<>> /\ exit_status = "running"
  /\ mapping = EmptyTree /\ updating_mapping = EmptyTree
  /\ updated_mapping = EmptyTree
  /\ tcls = Idle /\ ttree = EmptyTree

\* cli(): main(sys.argv[1]).
cli ==
  /\ pc = "cli"
  /\ IF Len(argv) < 2
       THEN /\ result' = Raise("IndexError")
            /\ pc' = "raised"
            /\ UNCHANGED config_file
       ELSE /\ config_file' = Str(argv[2])
            /\ pc' = "main"
            /\ UNCHANGED result
  /\ UNCHANGED <<argv, environ, kw, config_path, file, init_kw, values,
                 stdout, exit_status, mapping, updating_mapping,
                 updated_mapping, tcls, ttree>>

\* config_file or os.environ.get("DPT_CFG_FILE")
PathInEffect(cf, env) ==
  IF Truthy(cf) THEN cf
  ELSE IF "DPT_CFG_FILE" \in DOMAIN env THEN Str(env["DPT_CFG_FILE"])
  ELSE None

\* main -> Dockerfile.from_file: select the path, then call the constructor
\* (inside the try block when a path is in effect).
from_file ==
  /\ pc = "main"
  /\ config_path' = PathInEffect(config_file, environ)
  /\ pc' = "init"
  /\ UNCHANGED <<argv, environ, config_file, kw, file, init_kw, values,
                 result, stdout, exit_status, mapping, updating_mapping,
                 updated_mapping, tcls, ttree>>

\* The first part of __init__: the tree read from the config file, or the
\* exception raised on the way.
Load(path, f) ==
  IF ~Truthy(path) THEN [raised |-> "none", tree |-> Map(EmptyTree)]
  ELSE IF Suffix(path.s) \notin Parsers
    THEN [raised |-> "KeyError", tree |-> None]
  ELSE IF ~f.readable THEN [raised |-> "OSError", tree |-> None]
  ELSE IF ~f.wellformed THEN [raised |-> "DecodeError", tree |-> None]
  ELSE [raised |-> "none", tree |-> f.doc]

\* __init__ up to the call of super().__init__: the merged tree (as the
\* entity of the outcome), or the exception raised.
Resolve(path, f, kwargs, env) ==
  LET loaded == Load(path, f)
  IN
  IF loaded.raised # "none" THEN Raise(loaded.raised)
  ELSE IF EnvFails("Dockerfile", env) THEN Raise("SettingsError")
  ELSE IF IsNone(loaded.tree) \/ IsStr(loaded.tree)
    THEN Raise("AttributeError")
  ELSE IF ~IsMap(loaded.tree) THEN Raise("TypeError")
  ELSE Ok(deep_update(loaded.tree.m,
                      build_values("Dockerfile", kwargs, env)))

\* Dockerfile.__init__: load, merge, validate.
init ==
  /\ pc = "init"
  /\ \E f \in IF Truthy(config_path) /\ Suffix(config_path.s) \in Parsers
                THEN Files ELSE {NoFile} :
       LET resolved == Resolve(config_path, f, kw, environ)
           loaded == Load(config_path, f)
       IN
       /\ file' = f
       /\ init_kw' = loaded.tree
       /\ values' = resolved.entity
       /\ result' = IF resolved.raised # "none"
                      THEN resolved
                      ELSE DockerfileValidate(resolved.entity, environ)
       /\ pc' = IF result'.raised = "none" THEN "constructed" ELSE "raised"
  /\ UNCHANGED <<argv, environ, config_file, kw, config_path, stdout,
                 exit_status, mapping, updating_mapping, updated_mapping,
                 tcls, ttree>>

Printed(kind, path, cause, tree) ==
  [kind |-> kind, path |-> path, cause |-> cause, tree |-> tree]

\* from_file's handler: print the diagnostic and sys.exit(1).
from_file_except ==
  /\ pc = "raised"
  /\ Truthy(config_path)
  /\ stdout' = Append(stdout,
                 Printed("diagnostic", config_path.s, result.raised,
                         EmptyTree))
  /\ exit_status' = "1"
  /\ pc' = "exited"
  /\ UNCHANGED <<argv, environ, config_file, kw, config_path, file, init_kw,
                 values, result, mapping, updating_mapping, updated_mapping,
                 tcls, ttree>>

\* No handler is in effect: the exception leaves main and ends the process
\* with the interpreter's traceback and status 1; main prints nothing.
uncaught ==
  /\ pc = "raised"
  /\ ~Truthy(config_path)
  /\ exit_status' = "1"
  /\ pc' = "exited"
  /\ UNCHANGED <<argv, environ, config_file, kw, config_path, file, init_kw,
                 values, result, stdout, mapping, updating_mapping,
                 updated_mapping, tcls, ttree>>

\* main: dockerfile.render(env) and print.
render_print ==
  /\ pc = "constructed"
  /\ stdout' = Append(stdout,
                 Printed("rendered", <<>>, "none", result.entity))
  /\ exit_status' = "0"
  /\ pc' = "done"
  /\ UNCHANGED <<argv, environ, config_file, kw, config_path, file, init_kw,
                 values, result, mapping, updating_mapping, updated_mapping,
                 tcls, ttree>>

Next == cli \/ from_file \/ init \/ from_file_except \/ uncaught
          \/ render_print
Spec == Init /\ [][Next]_vars

----------------------------------------------------------------------------
(* Properties of the merge (SpecMerge) *)

\* The shape rule, level by level: the result's keys are the keys of both
\* sides; a key of one side keeps that side's value; a key of both sides is
\* merged by the same rule when both values are maps and otherwise holds
\* the override's value.
RECURSIVE MergeRule(_, _, _)
MergeRule(b, o, r) ==
  /\ DOMAIN r = DOMAIN b \cup DOMAIN o
  /\ \A k \in DOMAIN r :
       IF k \notin DOMAIN o THEN r[k] = b[k]
       ELSE IF k \notin DOMAIN b THEN r[k] = o[k]
       ELSE IF IsMap(b[k]) /\ IsMap(o[k])
         THEN IsMap(r[k]) /\ MergeRule(b[k].m, o[k].m, r[k].m)
         ELSE r[k] = o[k]

\* C2: for any base tree and override tree, a key whose value is a map on
\* both sides is merged recursively key by key (keys of both sides kept,
\* override wins), a key whose value is a sequence or scalar on either side
\* takes the override's value whole, and a key present on only one side
\* keeps that side's value.
C2_MergeShapeRule ==
  pc = "merged" => MergeRule(mapping, updating_mapping, updated_mapping)

\* A merge where key "a" is a map on both sides with different keys (both
\* kept) and key "b" is a sequence in the base and a scalar in the override.
C2_Witness ==
  /\ pc = "merged"
  /\ DOMAIN mapping = {"a", "b"} /\ DOMAIN updating_mapping = {"a", "b"}
  /\ IsMap(mapping["a"]) /\ IsMap(updating_mapping["a"])
  /\ DOMAIN mapping["a"].m = {"b"}
  /\ DOMAIN updating_mapping["a"].m = {"a"}
  /\ DOMAIN updated_mapping["a"].m = {"a", "b"}
  /\ mapping["b"] = List(<<"y">>)
  /\ updating_mapping["b"] = Str(<<"x">>)
  /\ updated_mapping["b"] = Str(<<"x">>)

----------------------------------------------------------------------------
(* Properties of image reconciliation (SpecTarget) *)

\* A key supplied with a non-null value.
Supplied(d, k) == k \in DOMAIN d /\ ~IsNone(d[k])
\* A key supplied with a non-empty string.
StrGiven(d, k) == k \in DOMAIN d /\ IsStr(d[k]) /\ d[k].s # <<>>

Joined(d) == Str(d["repository"].s \o <<":">> \o d["tag"].s)

ImageErrors(res) == {e \in res.errors : e[1] = <<"image">>}
OtherErrors(res) == res.errors \ ImageErrors(res)
ImageAccepted(res) ==
  res.raised # "AttributeError" /\ ImageErrors(res) = {}
\* Nothing but the image validator can have failed the construction.
OnlyImageDecides(res) ==
  res.raised \in {"none", "ValidationError"} /\ OtherErrors(res) = {}

\* C3 as stated: with image absent, repository and tag both present give
\* image = repository + ":" + tag, and neither present gives the fallback.
C3_AsStated ==
  (pc = "target_done" /\ result.raised = "none"
     /\ ~Supplied(values, "image"))
  => /\ (Supplied(values, "repository") /\ Supplied(values, "tag"))
          => result.entity["image"] = Joined(values)
     /\ (~Supplied(values, "repository") /\ ~Supplied(values, "tag"))
          => result.entity["image"] = Str(FallbackImage)

\* C3 (amended): for every Target whose field values do not supply image,
\* if repository and tag are both present and non-empty the image validator
\* accepts and the resulting image equals repository + ":" + tag, and if
\* neither repository nor tag is present it accepts and the resulting image
\* equals "python:3.9-alpine".
C3_ImageAbsent ==
  (pc = "target_done" /\ ~Supplied(values, "image"))
  => /\ (StrGiven(values, "repository") /\ StrGiven(values, "tag"))
          => /\ ImageAccepted(result)
             /\ result.raised = "none"
                  => result.entity["image"] = Joined(values)
     /\ (~Supplied(values, "repository") /\ ~Supplied(values, "tag"))
          => /\ ImageAccepted(result)
             /\ result.raised = "none"
                  => result.entity["image"] = Str(FallbackImage)

\* A Target built with repository and tag and no image: image is derived.
C3_Witness ==
  /\ pc = "target_done" /\ result.raised = "none"
  /\ "image" \notin DOMAIN values
  /\ StrGiven(values, "repository") /\ StrGiven(values, "tag")
  /\ result.entity["image"] = Str(<<"python", ":", "3.9">>)

\* The image of the values parses as repo:tag.
ImageParses(d) ==
  "image" \in DOMAIN d /\ IsStr(d["image"]) /\ Len(Split(d["image"].s)) = 2
ImgRepo(d) == Str(Split(d["image"].s)[1])
ImgTag(d) == Str(Split(d["image"].s)[2])

\* C4 as stated: with image = repo:tag, construction succeeds iff each of
\* repository and tag that was specified equals the parsed part; on success
\* repository and tag equal the parsed parts and image is unchanged.
C4_AsStated ==
  (pc = "target_done" /\ ImageParses(values) /\ OnlyImageDecides(result))
  => /\ result.raised = "none"
          <=> /\ Supplied(values, "repository")
                   => values["repository"] = ImgRepo(values)
              /\ Supplied(values, "tag") => values["tag"] = ImgTag(values)
     /\ result.raised = "none"
          => /\ result.entity["repository"] = ImgRepo(values)
             /\ result.entity["tag"] = ImgTag(values)
             /\ result.entity["image"] = values["image"]

\* C4 (amended): for every Target whose image parses as repo:tag (and whose
\* other fields are valid), construction succeeds if and only if each of
\* repository and tag that was specified with a non-empty value equals the
\* corresponding parsed part; on success repository and tag both equal the
\* parsed parts (a sibling that is unspecified or empty is back-filled, a
\* non-empty one is unchanged) and image is returned unchanged.
C4_ImagePresent ==
  (pc = "target_done" /\ ImageParses(values) /\ OnlyImageDecides(result))
  => /\ result.raised = "none"
          <=> /\ StrGiven(values, "repository")
                   => values["repository"] = ImgRepo(values)
              /\ StrGiven(values, "tag") => values["tag"] = ImgTag(values)
     /\ result.raised = "none"
          => /\ result.entity["repository"] = ImgRepo(values)
             /\ result.entity["tag"] = ImgTag(values)
             /\ result.entity["image"] = values["image"]
             /\ StrGiven(values, "repository")
                  => result.entity["repository"] = values["repository"]
             /\ StrGiven(values, "tag")
                  => result.entity["tag"] = values["tag"]

\* A Target built with image and repository only: tag is back-filled.
C4_Witness ==
  /\ pc = "target_done" /\ result.raised = "none"
  /\ ImageParses(values)
  /\ StrGiven(values, "repository") /\ "tag" \notin DOMAIN values
  /\ result.entity["repository"] = values["repository"]
  /\ result.entity["tag"] = Str(<<"3.9">>)
  /\ result.entity["image"] = values["image"]

----------------------------------------------------------------------------
(* Properties of the pipeline (Spec) *)

\* __init__ has merged the layers: the file gave a mapping (or there was no
\* file) and the environment decoded.
Merged ==
  /\ pc \in {"constructed", "raised", "done", "exited"}
  /\ IsMap(init_kw)
  /\ ~EnvFails("Dockerfile", environ)

\* The layers that set top-level key k, and the value each gives it.
FileSets(k) == IsMap(init_kw) /\ k \in DOMAIN init_kw.m
EnvSets(k) == k \in DOMAIN environ /\ k \in FieldSet("Dockerfile")
EnvValue(k) ==
  IF k \in ComplexFields THEN json_loads(environ[k]) ELSE Str(environ[k])
KwSets(k) == k \in DOMAIN kw
DefaultSets(k) == k \in DOMAIN Defaults("Dockerfile")

NoMapValue(k) ==
  /\ FileSets(k) => ~IsMap(init_kw.m[k])
  /\ EnvSets(k) => ~IsMap(EnvValue(k))
  /\ KwSets(k) => ~IsMap(kw[k])
  /\ DefaultSets(k) => ~IsMap(Defaults("Dockerfile")[k])

HighestLayerValue(k) ==
  IF KwSets(k) THEN kw[k]
  ELSE IF EnvSets(k) THEN EnvValue(k)
  ELSE IF FileSets(k) THEN init_kw.m[k]
  ELSE Defaults("Dockerfile")[k]

\* C1: for every top-level key and every combination of the four sources
\* (class default, config file, environment, keywords) that set it to a
\* non-map value, the value in the resolved tree is the one from the highest
\* layer that sets it, in the order defaults < file < environment <
\* keywords: in the merged tree for a key some source other than the
\* defaults sets, and in the constructed entity for every such key.
C1_LayerPrecedence ==
  Merged =>
    \A k \in FieldSet("Dockerfile") \cup DOMAIN values :
      NoMapValue(k) =>
        /\ (FileSets(k) \/ EnvSets(k) \/ KwSets(k))
             => (k \in DOMAIN values /\ values[k] = HighestLayerValue(k))
        /\ (result.raised = "none"
              /\ (FileSets(k) \/ EnvSets(k) \/ KwSets(k) \/ DefaultSets(k)))
             => result.entity[k] = HighestLayerValue(k)

\* A run in which all four sources set request and the keyword's value is
\* the one rendered.
C1_Witness ==
  /\ pc = "done"
  /\ FileSets("request") /\ EnvSets("request") /\ KwSets("request")
  /\ init_kw.m["request"] # kw["request"]
  /\ EnvValue("request") # kw["request"]
  /\ result.entity["request"] = kw["request"]

MissingError(f) == <<(<<f>>), "value_error.missing">>

\* C5 as stated: package is the only field with no default: a merged tree
\* lacking package fails with a validation error naming package, and one
\* that supplies package is never rejected because another field is
\* missing.  (Stated over the runs in which the image validator does not
\* crash; for those see C9.)
C5_AsStated ==
  (Merged /\ result.raised # "AttributeError") =>
    /\ "package" \notin DOMAIN values
         => (result.raised = "ValidationError"
               /\ MissingError("package") \in result.errors)
    /\ "package" \in DOMAIN values
         => \A e \in result.errors : e[2] # "value_error.missing"

\* C5 (amended): package, dev and prod are the fields of the Dockerfile
\* entity with no default: a merged tree lacking any of them never
\* constructs an entity, and every validation error it ends in names each
\* of them that is missing; a merged tree that supplies all three is never
\* rejected because some other field is missing (no other field is ever
\* reported missing).
C5_RequiredFields ==
  Merged =>
    LET lacking == {"package", "dev", "prod"} \ DOMAIN values
    IN /\ lacking # {} => result.raised # "none"
       /\ result.raised = "ValidationError"
            => \A f \in lacking : MissingError(f) \in result.errors
       /\ \A e \in result.errors :
            e[2] = "value_error.missing" => e \in {MissingError(f) : f \in lacking}

\* A merged tree with package and prod but no dev: rejected, dev named.
C5_Witness ==
  /\ Merged
  /\ DOMAIN values \cap {"package", "dev", "prod"} = {"package", "prod"}
  /\ result.raised = "ValidationError"
  /\ MissingError("dev") \in result.errors
  /\ MissingError("package") \notin result.errors

\* A failure of config loading or validation ended the run.
LoadOrValidationFailed ==
  pc = "exited" /\ result.raised \notin {"none", "IndexError"}

Rendered == \E i \in DOMAIN stdout : stdout[i].kind = "rendered"

\* C6: on any config-load or validation failure main prints a diagnostic
\* with the offending file path and the underlying cause, the process exits
\* non-zero and no rendered text is printed; rendered text is printed only
\* after a validated Dockerfile entity was constructed.
C6_AsStated ==
  /\ LoadOrValidationFailed
       => /\ \E i \in DOMAIN stdout :
               /\ stdout[i].kind = "diagnostic"
               /\ stdout[i].cause = result.raised
               /\ Truthy(config_path) => stdout[i].path = config_path.s
          /\ exit_status # "0"
          /\ ~Rendered
  /\ Rendered => result.raised = "none"

\* A Target built from its subtree of the merged tree alone.
TargetFromTreeOnly(cls, tree) == TargetValidate(cls, tree)

\* C7: environment variables are folded in only as top-level keys of the
\* Dockerfile settings: the dev and prod Targets of a constructed entity are
\* the ones their subtrees of the merged tree give, whatever else the
\* environment holds.
C7_AsStated ==
  pc = "done" =>
    \A f \in {"dev", "prod"} :
      result.entity[f] =
        Map(TargetFromTreeOnly(TargetClass(f), values[f].m).entity)

\* C8: the entry point accepts one positional argument or none: without one
\* it resolves from the environment alone (DPT_CFG_FILE if set, else no
\* file), and a non-empty positional path takes precedence.
C8_AsStated ==
  (argv # <<>> /\ pc \notin {"cli", "main"})
  => /\ result.raised # "IndexError"
     /\ config_path =
          (IF Len(argv) > 1 /\ argv[2] # <<>> THEN Str(argv[2])
           ELSE IF "DPT_CFG_FILE" \in DOMAIN environ
             THEN Str(environ["DPT_CFG_FILE"])
           ELSE None)

\* C9: every merged tree the validators reject fails with one aggregated
\* validation error listing every failing field; a failure inside dev or
\* prod never keeps a missing top-level field from being reported.
C9_AsStated ==
  (Merged /\ result.raised # "none")
  => /\ result.raised = "ValidationError"
     /\ \A f \in Required("Dockerfile") \ DOMAIN values :
          MissingError(f) \in result.errors

\* C10: in every Dockerfile entity construction returns, dev and prod each
\* have repository, tag and image non-null with image = repository + ":" +
\* tag.
C10_AsStated ==
  pc \in {"constructed", "done"} =>
    \A f \in {"dev", "prod"} :
      LET t == result.entity[f].m
      IN /\ IsStr(t["repository"]) /\ IsStr(t["tag"]) /\ IsStr(t["image"])
         /\ t["image"] = Joined(t)

====
